---- MODULE Spec2Model ----
(***************************************************************************)
(* Model of the azure-document-uploader: the Express server of             *)
(* server/index.js in front of a blob-storage account, and the             *)
(* container-name validator of the client's ContainerManager.              *)
(*                                                                         *)
(* Container names are sequences of one-character strings, so that the     *)
(* regular expression and the length / hyphen rules are computed on the    *)
(* characters.  File names, MIME types and blob names are strings; a blob  *)
(* name is built by string concatenation as the server builds it.  A file  *)
(* body is represented by its byte length.  Time stamps and URLs are left  *)
(* out; a listing is the set of its entries.                               *)
(***************************************************************************)
EXTENDS Integers, Sequences, FiniteSets, TLC

VARIABLES
    credential,   \* AZURE_STORAGE_CONNECTION_STRING is set in the environment
    containers,   \* names of the containers that exist in the storage account
    blobs,        \* the blobs stored, each [container, name, originalName, contentType, size]
    hits,         \* uploadLimiter: requests counted per client IP in the current window
    nextUuid,     \* number of uuidv4() values drawn so far
    inflight,     \* uploads that await uploadData
    resp,         \* the response sent last
    candidate,    \* container-name validator: the name typed
    verdict,      \* container-name validator: the error string returned
    isCreateDialogOpen,  \* ContainerManager: the create dialog is shown
    newContainerName,    \* ContainerManager: the name in the text field
    nameError,           \* ContainerManager: the error shown under the text field
    isLoading,           \* createContainerMutation.isLoading
    createRequests,      \* the names sent with POST /api/containers by the client
    containerName,  \* FileUploader / FileViewer: the container selected (prop)
    fileCount,      \* File objects handed to onDrop so far
    uploadQueue,    \* FileUploader: the entries [file, status] in the order added
    timers,         \* setTimeout callbacks scheduled by onDrop, each [file, batch, index]
    mutations,      \* upload requests awaited by handleFileUpload, each [file, batch]
    sent,           \* the upload requests made by the client, each [file, container]
    deleting,       \* FileViewer: a delete request is awaited by deleteMutation
    stale           \* react-query: the ['files', container] queries invalidated, not yet refetched

vars == <<credential, containers, blobs, hits, nextUuid, inflight, resp,
          candidate, verdict,
          isCreateDialogOpen, newContainerName, nameError, isLoading, createRequests,
          containerName, fileCount, uploadQueue, timers, mutations, sent, deleting, stale>>

serverVars == <<credential, containers, blobs, hits, nextUuid, inflight, resp>>

validatorVars == <<candidate, verdict>>

formVars == <<isCreateDialogOpen, newContainerName, nameError, isLoading, createRequests>>

uploaderVars == <<containerName, fileCount, uploadQueue, timers, mutations, sent, deleting, stale>>

clientVars == <<validatorVars, formVars, uploaderVars>>

(***************************************************************************)
(* Bounds of the model.                                                    *)
(***************************************************************************)
MaxUploads == 2

MaxLen == 4

(***************************************************************************)
(* Program constants.                                                      *)
(***************************************************************************)
UploadMax == 10

FileSizeLimit == 100 * 1024 * 1024

MinNameLen == 3

MaxNameLen == 63

allowedTypes ==
    { "application/pdf",
      "application/msword",
      "application/vnd.openxmlformats-officedocument.wordprocessingml.document",
      "application/vnd.ms-excel",
      "application/vnd.openxmlformats-officedocument.spreadsheetml.sheet",
      "application/vnd.ms-powerpoint",
      "application/vnd.openxmlformats-officedocument.presentationml.presentation",
      "text/plain",
      "image/jpeg",
      "image/png",
      "image/gif" }

Lower ==
    { "a", "b", "c", "d", "e", "f", "g", "h", "i", "j", "k", "l", "m",
      "n", "o", "p", "q", "r", "s", "t", "u", "v", "w", "x", "y", "z" }

Digit == { "0", "1", "2", "3", "4", "5", "6", "7", "8", "9" }

\* the character class [a-z0-9-]
LowerAlnumHyphen == Lower \cup Digit \cup { "-" }

\* /^[a-z0-9-]+$/.test(name)
MatchesNameRegex(name) ==
    /\ Len(name) >= 1
    /\ \A i \in 1..Len(name) : name[i] \in LowerAlnumHyphen

\* name.includes('--')
IncludesDoubleHyphen(name) ==
    \E i \in 1..(Len(name) - 1) : name[i] = "-" /\ name[i + 1] = "-"

ErrRequired == "Container name is required"

ErrLength == "Container name must be between 3 and 63 characters"

ErrCharset == "Container name must contain only lowercase letters, numbers, and hyphens"

ErrEdgeHyphen == "Container name cannot start or end with a hyphen"

ErrDoubleHyphen == "Container name cannot contain consecutive hyphens"


\* the validator with the lower length test off by one
validateContainerName_LengthOffByOne(name) ==
    IF name = <<>> THEN ErrRequired
    ELSE IF Len(name) <= MinNameLen \/ Len(name) > MaxNameLen THEN ErrLength
    ELSE IF ~MatchesNameRegex(name) THEN ErrCharset
    ELSE IF name[1] = "-" \/ name[Len(name)] = "-" THEN ErrEdgeHyphen
    ELSE IF IncludesDoubleHyphen(name) THEN ErrDoubleHyphen
    ELSE ""

\* the validator with the hyphen tests before the charset test
validateContainerName_HyphensFirst(name) ==
    IF name = <<>> THEN ErrRequired
    ELSE IF Len(name) < MinNameLen \/ Len(name) > MaxNameLen THEN ErrLength
    ELSE IF name[1] = "-" \/ name[Len(name)] = "-" THEN ErrEdgeHyphen
    ELSE IF IncludesDoubleHyphen(name) THEN ErrDoubleHyphen
    ELSE IF ~MatchesNameRegex(name) THEN ErrCharset
    ELSE ""

(***************************************************************************)
(* The container-name validator of the client (ContainerManager.tsx).      *)
(* It returns the error of the first rule that fails, '' when none does.   *)
(***************************************************************************)
validateContainerName(name) ==
    IF name = <<>> THEN ErrRequired
    ELSE IF Len(name) < MinNameLen \/ Len(name) > MaxNameLen THEN ErrLength
    ELSE IF ~MatchesNameRegex(name) THEN ErrCharset
    ELSE IF name[1] = "-" \/ name[Len(name)] = "-" THEN ErrEdgeHyphen
    ELSE IF IncludesDoubleHyphen(name) THEN ErrDoubleHyphen
    ELSE ""

(***************************************************************************)
(* The storage account, as the server uses it.  The service refuses a      *)
(* container name that breaks its naming rules (the rules the client's     *)
(* validator restates), a create of a container that exists (409) and a    *)
(* delete of a blob that does not (404); uploadData replaces a blob of the *)
(* same name.  Every call takes `up': whether the service answers it; a     *)
(* call that gets no answer throws a transport error.                      *)
(***************************************************************************)
StorageAcceptsName(name) ==
    /\ Len(name) >= MinNameLen
    /\ Len(name) <= MaxNameLen
    /\ MatchesNameRegex(name)
    /\ name[1] # "-"
    /\ name[Len(name)] # "-"
    /\ ~IncludesDoubleHyphen(name)

\* what console.error receives in a handler's catch block ("" when nothing is thrown)
NoError == ""

ErrNoCredential == "Azure Storage connection string not found"

ErrTransport == "RestError: storage unreachable"

ErrInvalidName == "RestError 400 InvalidResourceName"

ErrContainerExists == "RestError 409 ContainerAlreadyExists"

ErrContainerMissing == "RestError 404 ContainerNotFound"

ErrBlobMissing == "RestError 404 BlobNotFound"

ErrFileType == "File type not supported"

ErrFileSize == "MulterError LIMIT_FILE_SIZE"

\* a service client that is lost while a client of the server is over its limit
getBlobServiceClient_WhileUnderLimit ==
    IF credential /\ \A ip \in DOMAIN hits : hits[ip] <= UploadMax
    THEN NoError
    ELSE ErrNoCredential

\* getBlobServiceClient(): throws when the connection string is not set
getBlobServiceClient == IF credential THEN NoError ELSE ErrNoCredential

\* containerClient.createIfNotExists({access: 'blob'}): the error thrown, if any
createIfNotExists(name, up) ==
    IF ~up THEN ErrTransport
    ELSE IF ~StorageAcceptsName(name) THEN ErrInvalidName
    ELSE NoError

\* containerClient.create({access: 'blob'}): the error thrown, if any
create(name, up) ==
    IF ~up THEN ErrTransport
    ELSE IF ~StorageAcceptsName(name) THEN ErrInvalidName
    ELSE IF name \in containers THEN ErrContainerExists
    ELSE NoError

\* the containers after a create that found them as they are
ContainersWith_NoCreate(name) == containers

\* the containers after a create that put the new one in place of the others
ContainersWith_Replace(name) == { name }

\* the containers of the account after createIfNotExists or create succeeded
ContainersWith(name) == containers \cup { name }

\* blobClient.uploadData(buffer, ...): the error thrown, if any
uploadData(container, name, up) ==
    IF ~up THEN ErrTransport
    ELSE IF container \notin containers THEN ErrContainerMissing
    ELSE NoError

\* the blobs after a successful uploadData: a blob of the same name is replaced
PutBlob(b) ==
    { x \in blobs : ~(x.container = b.container /\ x.name = b.name) } \cup { b }

\* blobClient.delete(): the error thrown, if any
deleteBlob(container, name, up) ==
    IF ~up THEN ErrTransport
    ELSE IF ~\E x \in blobs : x.container = container /\ x.name = name THEN ErrBlobMissing
    ELSE NoError

\* containerClient.listBlobsFlat({includeMetadata: true}) of a container that
\* createIfNotExists has just found or made: the error thrown, if any
listBlobsFlat(up) == IF ~up THEN ErrTransport ELSE NoError

\* blobServiceClient.listContainers(): the error thrown, if any
listContainers(up) == IF ~up THEN ErrTransport ELSE NoError

(***************************************************************************)
(* Requests.                                                               *)
(***************************************************************************)
IPs == { "10.0.0.1" }

NameDocs == << "d", "o", "c", "s" >>

NameShort == << "a", "b" >>

NameUpper == << "A", "B" >>

\* container names that arrive as the :containerName parameter of a URL
UrlNames == { NameDocs, NameShort }

\* container names that arrive as the name of the body of POST /api/containers
BodyNames == { NameDocs, NameShort, NameUpper, <<>> }

\* a request without the multipart field 'file'
NoFile == [originalname |-> "", mimetype |-> "", size |-> 0]

\* the files a request may carry: two of the same name and different length,
\* one of them exactly as long as the limit allows, one too long, one of a type
\* that is not allowed, one too long and of a type that is not allowed
Files ==
    { [originalname |-> "report.pdf", mimetype |-> "application/pdf", size |-> 600],
      [originalname |-> "report.pdf", mimetype |-> "application/pdf", size |-> FileSizeLimit],
      [originalname |-> "scan.pdf", mimetype |-> "application/pdf", size |-> FileSizeLimit + 1],
      [originalname |-> "src.zip", mimetype |-> "application/zip", size |-> 600],
      [originalname |-> "all.zip", mimetype |-> "application/zip", size |-> FileSizeLimit + 1] }

Parts == Files \cup { NoFile }

\* an identifier source that draws the same identifier again
Uuid_Repeats(n) == "00000000-0000-4000-8000-000000000000"

\* uuidv4(): the n-th identifier drawn; identifiers have one fixed length
Uuid(n) == "00000000-0000-4000-8000-00000000000" \o ToString(n)

\* the blob name without the identifier
uniqueFilename_NoUuid(uuid, originalname) == originalname

\* `${uuidv4()}-${originalname}`
uniqueFilename(uuid, originalname) == uuid \o "-" \o originalname

\* the blob names a DELETE request may carry: the names generated so far and one
\* that was never generated
BlobNameInputs ==
    { r.name : r \in inflight } \cup { b.name : b \in blobs } \cup { "missing.pdf" }

NoReq == [ip |-> "", container |-> <<>>, part |-> NoFile, filename |-> ""]

\* a response: status and body, with the request it answers, the storage calls
\* the request made and what the server logged with console.error
Response(op, req, status, calls, logged) ==
    [op |-> op, req |-> req, status |-> status, calls |-> calls, logged |-> logged,
     error |-> "", message |-> "", filename |-> "", originalName |-> "", size |-> 0,
     container |-> <<>>, files |-> {}, names |-> {}]

\* a catch block that sends the text of what was thrown
Failure_Verbatim(op, req, status, calls, logged, error) ==
    [Response(op, req, status, calls, logged)
        EXCEPT !.error = IF logged # NoError THEN logged ELSE error]

Failure(op, req, status, calls, logged, error) ==
    [Response(op, req, status, calls, logged) EXCEPT !.error = error]

(***************************************************************************)
(* uploadLimiter: express-rate-limit in front of /api/upload.              *)
(***************************************************************************)
\* the count of the client after this request; counts above the maximum are not told apart
Increment(ip) == IF hits[ip] > UploadMax THEN hits[ip] ELSE hits[ip] + 1

\* the limiter with the limit one too high
OverLimit_OffByOne(current) == current > UploadMax + 1

\* the request is over the limit
OverLimit(current) == current > UploadMax

MsgTooManyUploads == "Too many uploads from this IP, please try again later."

\* the window of a client ends: its count starts again
WindowReset(ip) ==
    /\ hits[ip] > 0
    /\ hits' = [hits EXCEPT ![ip] = 0]
    /\ UNCHANGED <<credential, containers, blobs, nextUuid, inflight, resp>>
    /\ UNCHANGED clientVars

(***************************************************************************)
(* multer: upload.single('file') with the fileFilter and the size limit.   *)
(* The error passed to next(), if any.                                     *)
(***************************************************************************)
\* a fileFilter that lets every type pass
fileFilter_AllowsAll(part) == NoError

fileFilter(part) == IF part.mimetype \in allowedTypes THEN NoError ELSE ErrFileType

\* multer with the size limit off by one
upload_LimitOffByOne(part) ==
    IF part = NoFile THEN NoError
    ELSE IF fileFilter(part) # NoError THEN fileFilter(part)
    ELSE IF part.size >= FileSizeLimit THEN ErrFileSize
    ELSE NoError

upload(part) ==
    IF part = NoFile THEN NoError
    ELSE IF fileFilter(part) # NoError THEN fileFilter(part)
    ELSE IF part.size > FileSizeLimit THEN ErrFileSize
    ELSE NoError

\* an error handling middleware that sends the default answer
errorMiddleware_Swallow(op, req, error) == Response(op, req, 200, <<>>, error)

\* the error handling middleware: the response to an error passed to next()
errorMiddleware(op, req, error) ==
    IF error = ErrFileSize
    THEN Failure(op, req, 400, <<>>, NoError, "File too large. Maximum size is 100MB.")
    ELSE Failure(op, req, 500, <<>>, error, "Internal server error")

(***************************************************************************)
(* Route handlers.  `up', `up2': whether the storage service answers the   *)
(* first and the second storage call of the request.                       *)
(***************************************************************************)
\* error.statusCode of what a storage call throws (0: the error has none)
StatusCode(error) ==
    CASE error = ErrInvalidName -> 400
      [] error = ErrContainerExists -> 409
      [] error = ErrContainerMissing -> 404
      [] error = ErrBlobMissing -> 404
      [] OTHER -> 0

\* GET /api/containers
GetContainers(up) ==
    /\ resp' = IF getBlobServiceClient # NoError
               THEN Failure("containers", NoReq, 500, <<>>, getBlobServiceClient,
                            "Failed to fetch containers")
               ELSE IF listContainers(up) # NoError
               THEN Failure("containers", NoReq, 500, <<"listContainers">>,
                            listContainers(up), "Failed to fetch containers")
               ELSE [Response("containers", NoReq, 200, <<"listContainers">>, NoError)
                        EXCEPT !.names = containers]
    /\ UNCHANGED <<credential, containers, blobs, hits, nextUuid, inflight>>
    /\ UNCHANGED clientVars

\* the catch block without the test for 409
createCatch_Always500(req, calls, error) ==
    Failure("create", req, 500, calls, error, "Failed to create container")

\* the status and body of the catch block of POST /api/containers
createCatch(req, calls, error) ==
    IF StatusCode(error) = 409
    THEN Failure("create", req, 409, calls, error, "Container already exists")
    ELSE Failure("create", req, 500, calls, error, "Failed to create container")

\* the test of the name at the head of POST /api/containers
nameRejected(name) == name = <<>> \/ ~MatchesNameRegex(name)

\* POST /api/containers
PostContainers(name, up) ==
    LET req == [NoReq EXCEPT !.container = name] IN
    /\ IF nameRejected(name)
       THEN /\ resp' = Failure("create", req, 400, <<>>, NoError, ErrCharset)
            /\ UNCHANGED containers
       ELSE IF getBlobServiceClient # NoError
       THEN /\ resp' = createCatch(req, <<>>, getBlobServiceClient)
            /\ UNCHANGED containers
       ELSE IF create(name, up) # NoError
       THEN /\ resp' = createCatch(req, <<"create">>, create(name, up))
            /\ UNCHANGED containers
       ELSE /\ resp' = [Response("create", req, 200, <<"create">>, NoError)
                           EXCEPT !.message = "Container created successfully",
                                  !.container = name]
            /\ containers' = ContainersWith(name)
    /\ UNCHANGED <<credential, blobs, hits, nextUuid, inflight>>
    /\ UNCHANGED clientVars

\* POST /api/upload/:containerName, up to the await of uploadData: the limiter,
\* multer, the generated name and getContainerClient
PostUpload(ip, container, part, up) ==
    LET current == Increment(ip)
        req == [ip |-> ip, container |-> container, part |-> part, filename |-> ""]
        name == uniqueFilename(Uuid(nextUuid + 1), part.originalname)
    IN
    /\ hits' = [hits EXCEPT ![ip] = current]
    /\ IF OverLimit(current)
       THEN /\ resp' = [Response("upload", req, 429, <<>>, NoError)
                           EXCEPT !.message = MsgTooManyUploads]
            /\ UNCHANGED <<containers, nextUuid, inflight>>
       ELSE IF upload(part) # NoError
       THEN /\ resp' = errorMiddleware("upload", req, upload(part))
            /\ UNCHANGED <<containers, nextUuid, inflight>>
       ELSE IF part = NoFile
       THEN /\ resp' = Failure("upload", req, 400, <<>>, NoError, "No file uploaded")
            /\ UNCHANGED <<containers, nextUuid, inflight>>
       ELSE /\ nextUuid < MaxUploads
            /\ nextUuid' = nextUuid + 1
            /\ IF getBlobServiceClient # NoError
               THEN /\ resp' = Failure("upload", req, 500, <<>>, getBlobServiceClient,
                                       "Failed to upload file")
                    /\ UNCHANGED <<containers, inflight>>
               ELSE IF createIfNotExists(container, up) # NoError
               THEN /\ resp' = Failure("upload", req, 500, <<"createIfNotExists">>,
                                       createIfNotExists(container, up),
                                       "Failed to upload file")
                    /\ UNCHANGED <<containers, inflight>>
               ELSE /\ containers' = ContainersWith(container)
                    /\ inflight' = inflight \cup { [req |-> req, name |-> name] }
                    /\ UNCHANGED resp
    /\ UNCHANGED <<credential, blobs>>
    /\ UNCHANGED clientVars

\* POST /api/upload/:containerName, from uploadData to the response
UploadData(r, up) ==
    LET calls == <<"createIfNotExists", "uploadData">>
        part == r.req.part
        error == uploadData(r.req.container, r.name, up)
    IN
    /\ r \in inflight
    /\ inflight' = inflight \ { r }
    /\ IF error # NoError
       THEN /\ resp' = Failure("upload", r.req, 500, calls, error, "Failed to upload file")
            /\ UNCHANGED blobs
       ELSE /\ blobs' = PutBlob([container |-> r.req.container, name |-> r.name,
                                 originalName |-> part.originalname,
                                 contentType |-> part.mimetype, size |-> part.size])
            /\ resp' = [Response("upload", r.req, 200, calls, NoError)
                           EXCEPT !.message = "File uploaded successfully",
                                  !.filename = r.name,
                                  !.originalName = part.originalname,
                                  !.size = part.size,
                                  !.container = r.req.container]
    /\ UNCHANGED <<credential, containers, hits, nextUuid>>
    /\ UNCHANGED clientVars

\* the entries without the originalName of the metadata
FileEntries_NoMetadata(container) ==
    { [name |-> b.name,
       originalName |-> b.name,
       size |-> b.size,
       contentType |-> b.contentType] : b \in { x \in blobs : x.container = container } }

\* the entries without the fallback to the blob name
FileEntries_NoFallback(container) ==
    { [name |-> b.name,
       originalName |-> b.originalName,
       size |-> b.size,
       contentType |-> b.contentType] : b \in { x \in blobs : x.container = container } }

\* the entries of GET /api/containers/:containerName/files for the blobs of a container
FileEntries(container) ==
    { [name |-> b.name,
       originalName |-> IF b.originalName # "" THEN b.originalName ELSE b.name,
       size |-> b.size,
       contentType |-> b.contentType] : b \in { x \in blobs : x.container = container } }

\* GET /api/containers/:containerName/files
GetFiles(container, up, up2) ==
    LET req == [NoReq EXCEPT !.container = container]
        calls == <<"createIfNotExists", "listBlobsFlat">>
    IN
    /\ IF getBlobServiceClient # NoError
       THEN /\ resp' = Failure("files", req, 500, <<>>, getBlobServiceClient,
                               "Failed to fetch files")
            /\ UNCHANGED containers
       ELSE IF createIfNotExists(container, up) # NoError
       THEN /\ resp' = Failure("files", req, 500, <<"createIfNotExists">>,
                               createIfNotExists(container, up), "Failed to fetch files")
            /\ UNCHANGED containers
       ELSE /\ containers' = ContainersWith(container)
            /\ resp' = IF listBlobsFlat(up2) # NoError
                       THEN Failure("files", req, 500, calls, listBlobsFlat(up2),
                                    "Failed to fetch files")
                       ELSE [Response("files", req, 200, calls, NoError)
                                EXCEPT !.files = FileEntries(container)]
    /\ UNCHANGED <<credential, blobs, hits, nextUuid, inflight>>
    /\ UNCHANGED clientVars

\* DELETE /api/containers/:containerName/files/:filename
DeleteFile(container, filename, up, up2) ==
    LET req == [NoReq EXCEPT !.container = container, !.filename = filename]
        calls == <<"createIfNotExists", "delete">>
    IN
    /\ IF getBlobServiceClient # NoError
       THEN /\ resp' = Failure("delete", req, 500, <<>>, getBlobServiceClient,
                               "Failed to delete file")
            /\ UNCHANGED <<containers, blobs>>
       ELSE IF createIfNotExists(container, up) # NoError
       THEN /\ resp' = Failure("delete", req, 500, <<"createIfNotExists">>,
                               createIfNotExists(container, up), "Failed to delete file")
            /\ UNCHANGED <<containers, blobs>>
       ELSE /\ containers' = ContainersWith(container)
            /\ IF deleteBlob(container, filename, up2) # NoError
               THEN /\ resp' = Failure("delete", req, 500, calls,
                                       deleteBlob(container, filename, up2),
                                       "Failed to delete file")
                    /\ UNCHANGED blobs
               ELSE /\ resp' = [Response("delete", req, 200, calls, NoError)
                                   EXCEPT !.message = "File deleted successfully"]
                    /\ blobs' = { x \in blobs :
                                    ~(x.container = container /\ x.name = filename) }
    /\ UNCHANGED <<credential, hits, nextUuid, inflight>>
    /\ UNCHANGED clientVars

\* a health check that asks for the storage client first
GetHealth_NeedsStorage ==
    /\ resp' = IF getBlobServiceClient # NoError
               THEN Failure("health", NoReq, 500, <<>>, getBlobServiceClient, "Unhealthy")
               ELSE [Response("health", NoReq, 200, <<>>, NoError) EXCEPT !.message = "OK"]
    /\ UNCHANGED <<credential, containers, blobs, hits, nextUuid, inflight>>
    /\ UNCHANGED clientVars

\* GET /api/health
GetHealth ==
    /\ resp' = [Response("health", NoReq, 200, <<>>, NoError) EXCEPT !.message = "OK"]
    /\ UNCHANGED <<credential, containers, blobs, hits, nextUuid, inflight>>
    /\ UNCHANGED clientVars

\* ContainerManager as mounted: useState(false), useState(''), useState('')
FormIdle ==
    /\ isCreateDialogOpen = FALSE
    /\ newContainerName = <<>>
    /\ nameError = ""
    /\ isLoading = FALSE
    /\ createRequests = {}

\* FileUploader and FileViewer as mounted for the container docs: useState([])
UploaderIdle ==
    /\ containerName = NameDocs
    /\ fileCount = 0
    /\ uploadQueue = <<>>
    /\ timers = {}
    /\ mutations = {}
    /\ sent = {}
    /\ deleting = FALSE
    /\ stale = {}

Unchecked == "unchecked"

NoResponse == Response("none", NoReq, 0, <<>>, NoError)

Init ==
    /\ credential \in BOOLEAN
    /\ containers = {}
    /\ blobs = {}
    /\ hits = [ip \in IPs |-> 0]
    /\ nextUuid = 0
    /\ inflight = {}
    /\ resp = NoResponse
    /\ candidate = <<>>
    /\ verdict = Unchecked
    /\ FormIdle
    /\ UploaderIdle

Next ==
    \/ \E up \in BOOLEAN : GetContainers(up)
    \/ \E name \in BodyNames, up \in BOOLEAN : PostContainers(name, up)
    \/ \E ip \in IPs, container \in UrlNames, part \in Parts, up \in BOOLEAN :
          PostUpload(ip, container, part, up)
    \/ \E r \in inflight, up \in BOOLEAN : UploadData(r, up)
    \/ \E container \in UrlNames, up \in BOOLEAN, up2 \in BOOLEAN :
          GetFiles(container, up, up2)
    \/ \E container \in UrlNames, filename \in BlobNameInputs, up \in BOOLEAN, up2 \in BOOLEAN :
          DeleteFile(container, filename, up, up2)
    \/ GetHealth
    \/ \E ip \in IPs : WindowReset(ip)

Spec == Init /\ [][Next]_vars

(***************************************************************************)
(* The upload limiter in front of two clients.                             *)
(***************************************************************************)
LimiterIPs == { "10.0.0.1", "10.0.0.2" }

\* the uploads of the clients: one without a file, one that multer accepts
LimiterParts ==
    { NoFile,
      [originalname |-> "report.pdf", mimetype |-> "application/pdf", size |-> 600] }

InitLimiter ==
    /\ credential = TRUE
    /\ containers = {}
    /\ blobs = {}
    /\ hits = [ip \in LimiterIPs |-> 0]
    /\ nextUuid = 0
    /\ inflight = {}
    /\ resp = NoResponse
    /\ candidate = <<>>
    /\ verdict = Unchecked
    /\ FormIdle
    /\ UploaderIdle

NextLimiter ==
    \/ \E ip \in LimiterIPs, part \in LimiterParts, up \in BOOLEAN :
          PostUpload(ip, NameDocs, part, up)
    \/ \E r \in inflight, up \in BOOLEAN : UploadData(r, up)
    \/ \E ip \in LimiterIPs : WindowReset(ip)

SpecLimiter == InitLimiter /\ [][NextLimiter]_vars

(***************************************************************************)
(* The requests of one client to one container, for comparing the answers  *)
(* the server gives in two states.                                         *)
(***************************************************************************)
InitStateless ==
    /\ credential \in BOOLEAN
    /\ containers = {}
    /\ blobs = {}
    /\ hits = [ip \in IPs |-> 0]
    /\ nextUuid = 0
    /\ inflight = {}
    /\ resp = NoResponse
    /\ candidate = <<>>
    /\ verdict = Unchecked
    /\ FormIdle
    /\ UploaderIdle

NextStateless ==
    \/ \E up \in BOOLEAN : GetContainers(up)
    \/ \E up \in BOOLEAN : PostContainers(NameDocs, up)
    \/ \E ip \in IPs, part \in LimiterParts, up \in BOOLEAN :
          PostUpload(ip, NameDocs, part, up)
    \/ \E r \in inflight, up \in BOOLEAN : UploadData(r, up)
    \/ \E up \in BOOLEAN, up2 \in BOOLEAN : GetFiles(NameDocs, up, up2)
    \/ \E filename \in BlobNameInputs, up \in BOOLEAN, up2 \in BOOLEAN :
          DeleteFile(NameDocs, filename, up, up2)
    \/ GetHealth
    \/ \E ip \in IPs : WindowReset(ip)

SpecStateless == InitStateless /\ [][NextStateless]_vars

(***************************************************************************)
(* The requests of one client to an account of two containers.             *)
(***************************************************************************)
NameLogs == << "l", "o", "g", "s" >>

AccountNames == { NameDocs, NameLogs }

InitAccount ==
    /\ credential = TRUE
    /\ containers = {}
    /\ blobs = {}
    /\ hits = [ip \in IPs |-> 0]
    /\ nextUuid = 0
    /\ inflight = {}
    /\ resp = NoResponse
    /\ candidate = <<>>
    /\ verdict = Unchecked
    /\ FormIdle
    /\ UploaderIdle

NextAccount ==
    \/ \E up \in BOOLEAN : GetContainers(up)
    \/ \E name \in AccountNames, up \in BOOLEAN : PostContainers(name, up)
    \/ \E ip \in IPs, container \in AccountNames, part \in LimiterParts, up \in BOOLEAN :
          PostUpload(ip, container, part, up)
    \/ \E r \in inflight, up \in BOOLEAN : UploadData(r, up)
    \/ \E container \in AccountNames, up \in BOOLEAN, up2 \in BOOLEAN :
          GetFiles(container, up, up2)
    \/ \E container \in AccountNames, filename \in BlobNameInputs,
          up \in BOOLEAN, up2 \in BOOLEAN :
          DeleteFile(container, filename, up, up2)
    \/ GetHealth
    \/ \E ip \in IPs : WindowReset(ip)

SpecAccount == InitAccount /\ [][NextAccount]_vars

(***************************************************************************)
(* The server in front of an account that already holds a container with  *)
(* a blob another program stored, without originalName metadata.           *)
(***************************************************************************)
ForeignBlob ==
    [container |-> NameDocs, name |-> "legacy.bin", originalName |-> "",
     contentType |-> "application/octet-stream", size |-> 5]

InitListing ==
    /\ credential \in BOOLEAN
    /\ containers = { NameDocs }
    /\ blobs = { ForeignBlob }
    /\ hits = [ip \in IPs |-> 0]
    /\ nextUuid = 0
    /\ inflight = {}
    /\ resp = NoResponse
    /\ candidate = <<>>
    /\ verdict = Unchecked
    /\ FormIdle
    /\ UploaderIdle

SpecListing == InitListing /\ [][NextStateless]_vars

(***************************************************************************)
(* The upload tab of the client: FileUploader and FileViewer mounted for   *)
(* one container.  A File object is known by its number; what a request   *)
(* comes back with (resolved or rejected) is an input of the step.         *)
(***************************************************************************)
\* the File objects the user drops in all
MaxFiles == 3

FileIds == 1..MaxFiles

\* item.file === file ? { ...item, status } : item
SetStatus(queue, file, status) ==
    [i \in DOMAIN queue |->
        IF queue[i].file = file THEN [queue[i] EXCEPT !.status = status] ELSE queue[i]]

\* prev.filter(item => item.file !== file)
Without(queue, file) == SelectSeq(queue, LAMBDA item : item.file # file)

\* the files in the queue
QueuedFiles == { uploadQueue[i].file : i \in DOMAIN uploadQueue }

\* the status of a file in the queue
StatusOf(file) ==
    LET i == CHOOSE k \in DOMAIN uploadQueue : uploadQueue[k].file = file
    IN uploadQueue[i].status

\* a handler that goes back to pending when the request is rejected
SettledStatus_Retry(ok) == IF ok THEN "success" ELSE "pending"

\* a handler without the catch block
SettledStatus_NoCatch(ok) == IF ok THEN "success" ELSE "uploading"

\* the status handleFileUpload sets after the await: 'success', or 'error' in the catch block
SettledStatus(ok) == IF ok THEN "success" ELSE "error"

\* a success handler without the invalidation
invalidateQueries_Nothing(key) == stale

\* queryClient.invalidateQueries(['files', key])
invalidateQueries(key) == stale \cup { key }

InitUploader ==
    /\ credential = TRUE
    /\ containers = {}
    /\ blobs = {}
    /\ hits = [ip \in IPs |-> 0]
    /\ nextUuid = 0
    /\ inflight = {}
    /\ resp = NoResponse
    /\ candidate = <<>>
    /\ verdict = Unchecked
    /\ FormIdle
    /\ containerName \in AccountNames
    /\ fileCount = 0
    /\ uploadQueue = <<>>
    /\ timers = {}
    /\ mutations = {}
    /\ sent = {}
    /\ deleting = FALSE
    /\ stale = {}

\* onDrop(acceptedFiles) with n files
onDrop(n) ==
    /\ fileCount + n <= MaxFiles
    /\ fileCount' = fileCount + n
    /\ uploadQueue' = uploadQueue \o [i \in 1..n |-> [file |-> fileCount + i, status |-> "pending"]]
    /\ timers' = timers \cup { [file |-> fileCount + i, batch |-> fileCount + 1, index |-> i - 1] :
                                 i \in 1..n }
    /\ UNCHANGED <<containerName, mutations, sent, deleting, stale>>
    /\ UNCHANGED <<serverVars, validatorVars, formVars>>

\* the setTimeout callback of a file (after index * 100 ms): handleFileUpload(file)
\* up to the await of uploadMutation.mutateAsync
handleFileUpload(t) ==
    /\ t \in timers
    /\ \A u \in timers : u.batch = t.batch => u.index >= t.index
    /\ timers' = timers \ { t }
    /\ uploadQueue' = SetStatus(uploadQueue, t.file, "uploading")
    /\ mutations' = mutations \cup { [file |-> t.file, batch |-> t.batch] }
    /\ sent' = sent \cup { [file |-> t.file, container |-> containerName] }
    /\ UNCHANGED <<containerName, fileCount, deleting, stale>>
    /\ UNCHANGED <<serverVars, validatorVars, formVars>>

\* handleFileUpload after the await: the request resolved (ok) or was rejected
UploadSettles(m, ok) ==
    /\ m \in mutations
    /\ mutations' = mutations \ { m }
    /\ uploadQueue' = SetStatus(uploadQueue, m.file, SettledStatus(ok))
    /\ stale' = IF ok THEN invalidateQueries(containerName) ELSE stale
    /\ UNCHANGED <<containerName, fileCount, timers, sent, deleting>>
    /\ UNCHANGED <<serverVars, validatorVars, formVars>>

\* the remove button of an entry, shown while its status is pending or error
removeFromQueue(file) ==
    /\ file \in QueuedFiles
    /\ StatusOf(file) \in { "pending", "error" }
    /\ uploadQueue' = Without(uploadQueue, file)
    /\ UNCHANGED <<containerName, fileCount, timers, mutations, sent, deleting, stale>>
    /\ UNCHANGED <<serverVars, validatorVars, formVars>>

\* FileViewer: confirmDelete, deleteMutation.mutate({ filename })
confirmDelete ==
    /\ ~deleting
    /\ deleting' = TRUE
    /\ UNCHANGED <<containerName, fileCount, uploadQueue, timers, mutations, sent, stale>>
    /\ UNCHANGED <<serverVars, validatorVars, formVars>>

\* FileViewer: the delete request resolved (onSuccess) or was rejected (onError)
DeleteSettles(ok) ==
    /\ deleting
    /\ deleting' = FALSE
    /\ stale' = IF ok THEN invalidateQueries(containerName) ELSE stale
    /\ UNCHANGED <<containerName, fileCount, uploadQueue, timers, mutations, sent>>
    /\ UNCHANGED <<serverVars, validatorVars, formVars>>

\* react-query refetches the invalidated query that FileViewer has mounted
Refetch(key) ==
    /\ key \in stale
    /\ key = containerName
    /\ stale' = stale \ { key }
    /\ UNCHANGED <<containerName, fileCount, uploadQueue, timers, mutations, sent, deleting>>
    /\ UNCHANGED <<serverVars, validatorVars, formVars>>

NextUploader ==
    \/ \E n \in 1..MaxFiles : onDrop(n)
    \/ \E t \in timers : handleFileUpload(t)
    \/ \E m \in mutations, ok \in BOOLEAN : UploadSettles(m, ok)
    \/ \E file \in FileIds : removeFromQueue(file)
    \/ confirmDelete
    \/ \E ok \in BOOLEAN : DeleteSettles(ok)
    \/ \E key \in AccountNames : Refetch(key)

SpecUploader == InitUploader /\ [][NextUploader]_vars

\* the event loop runs every timer callback that is due, every request comes
\* back (axios gives up after its timeout), react-query refetches
FairUploader ==
    /\ WF_vars(\E t \in timers : handleFileUpload(t))
    /\ \A file \in FileIds :
          WF_vars(\E m \in mutations, ok \in BOOLEAN : m.file = file /\ UploadSettles(m, ok))
    /\ WF_vars(\E ok \in BOOLEAN : DeleteSettles(ok))
    /\ WF_vars(\E key \in AccountNames : Refetch(key))

SpecUploaderFair == SpecUploader /\ FairUploader

(***************************************************************************)
(* The create dialog of ContainerManager.                                  *)
(***************************************************************************)
\* the names typed into the text field: none, valid ones, and one for each rule
TypedNames ==
    { <<>>, NameDocs, NameLogs, NameShort, NameUpper,
      << "A", "b", "c" >>, << "-", "a", "b" >>, << "a", "-", "-", "b" >>,
      [i \in 1..(MaxNameLen + 1) |-> "a"] }

\* a click handler that leaves the test of the name to the disabled button
SubmitError_ButtonOnly(name) == ""

\* handleCreateContainer: const error = validateContainerName(newContainerName)
SubmitError(name) == validateContainerName(name)

\* the Create button is disabled
CreateDisabled == nameError # "" \/ newContainerName = <<>> \/ isLoading

InitForm ==
    /\ credential = TRUE
    /\ containers = {}
    /\ blobs = {}
    /\ hits = [ip \in IPs |-> 0]
    /\ nextUuid = 0
    /\ inflight = {}
    /\ resp = NoResponse
    /\ candidate = <<>>
    /\ verdict = Unchecked
    /\ FormIdle
    /\ UploaderIdle

\* the 'Create Container' button: setIsCreateDialogOpen(true)
OpenDialog ==
    /\ ~isCreateDialogOpen
    /\ isCreateDialogOpen' = TRUE
    /\ UNCHANGED <<newContainerName, nameError, isLoading, createRequests>>
    /\ UNCHANGED <<serverVars, validatorVars, uploaderVars>>

\* Cancel, or the dialog's onClose: setIsCreateDialogOpen(false)
CloseDialog ==
    /\ isCreateDialogOpen
    /\ isCreateDialogOpen' = FALSE
    /\ UNCHANGED <<newContainerName, nameError, isLoading, createRequests>>
    /\ UNCHANGED <<serverVars, validatorVars, uploaderVars>>

\* handleNameChange(e.target.value)
handleNameChange(value) ==
    /\ isCreateDialogOpen
    /\ newContainerName' = value
    /\ nameError' = IF nameError # "" THEN validateContainerName(value) ELSE nameError
    /\ UNCHANGED <<isCreateDialogOpen, isLoading, createRequests>>
    /\ UNCHANGED <<serverVars, validatorVars, uploaderVars>>

\* a click on the Create button: handleCreateContainer
handleCreateContainer ==
    /\ isCreateDialogOpen
    /\ ~CreateDisabled
    /\ IF SubmitError(newContainerName) # ""
       THEN /\ nameError' = SubmitError(newContainerName)
            /\ UNCHANGED <<isLoading, createRequests>>
       ELSE /\ createRequests' = createRequests \cup { newContainerName }
            /\ isLoading' = TRUE
            /\ UNCHANGED nameError
    /\ UNCHANGED <<isCreateDialogOpen, newContainerName>>
    /\ UNCHANGED <<serverVars, validatorVars, uploaderVars>>

\* createContainerMutation: onSuccess (ok) or onError
CreateSettles(ok) ==
    /\ isLoading
    /\ isLoading' = FALSE
    /\ IF ok
       THEN /\ isCreateDialogOpen' = FALSE
            /\ newContainerName' = <<>>
       ELSE UNCHANGED <<isCreateDialogOpen, newContainerName>>
    /\ UNCHANGED <<nameError, createRequests>>
    /\ UNCHANGED <<serverVars, validatorVars, uploaderVars>>

NextForm ==
    \/ OpenDialog
    \/ CloseDialog
    \/ \E value \in TypedNames : handleNameChange(value)
    \/ handleCreateContainer
    \/ \E ok \in BOOLEAN : CreateSettles(ok)

SpecForm == InitForm /\ [][NextForm]_vars

(***************************************************************************)
(* The container-name validator applied to a typed name.                   *)
(***************************************************************************)
Alphabet == { "a", "0", "-", "A" }

\* the strings of exactly n characters
Strs(n) == [1..n -> Alphabet]

\* the strings of at most n characters
StrsUpTo(n) == UNION { Strs(k) : k \in 0..n }

\* prefix, then 'a' repeated up to n characters in all, then suffix
Pad(prefix, suffix, n) ==
    prefix \o [i \in 1..(n - Len(prefix) - Len(suffix)) |-> "a"] \o suffix

\* the names typed: every short string, and long ones around the upper limit
CandidateNames ==
    StrsUpTo(MaxLen)
        \cup { Pad(prefix, suffix, n) : prefix \in StrsUpTo(MaxLen - 1),
                                        suffix \in StrsUpTo(1),
                                        n \in (MaxNameLen - 1)..(MaxNameLen + 1) }

InitValidator ==
    /\ credential = TRUE
    /\ containers = {}
    /\ blobs = {}
    /\ hits = [ip \in IPs |-> 0]
    /\ nextUuid = 0
    /\ inflight = {}
    /\ resp = NoResponse
    /\ candidate \in CandidateNames
    /\ verdict = Unchecked
    /\ FormIdle
    /\ UploaderIdle

\* handleCreateContainer: const error = validateContainerName(newContainerName)
Validate ==
    /\ verdict = Unchecked
    /\ verdict' = validateContainerName(candidate)
    /\ UNCHANGED candidate
    /\ UNCHANGED serverVars
    /\ UNCHANGED <<formVars, uploaderVars>>

NextValidator == Validate

SpecValidator == InitValidator /\ [][NextValidator]_vars

(***************************************************************************)
(* The rules of a container name, each on its own.                         *)
(***************************************************************************)
BreaksRequired(name) == Len(name) = 0

BreaksLength(name) == Len(name) < 3 \/ Len(name) > 63

BreaksCharset(name) == \E i \in DOMAIN name : name[i] \notin LowerAlnumHyphen

BreaksEdgeHyphen(name) == Len(name) > 0 /\ (Head(name) = "-" \/ name[Len(name)] = "-")

BreaksDoubleHyphen(name) == \E i \in 2..Len(name) : name[i - 1] = "-" /\ name[i] = "-"

\* the rules in the order of the specification, and the rules a name breaks
RuleOrder == << "required", "length", "charset", "edge-hyphen", "double-hyphen" >>

Breaks(name, rule) ==
    CASE rule = "required" -> BreaksRequired(name)
      [] rule = "length" -> BreaksLength(name)
      [] rule = "charset" -> BreaksCharset(name)
      [] rule = "edge-hyphen" -> BreaksEdgeHyphen(name)
      [] rule = "double-hyphen" -> BreaksDoubleHyphen(name)

Broken(name) == { k \in DOMAIN RuleOrder : Breaks(name, RuleOrder[k]) }

Reason(k) == << ErrRequired, ErrLength, ErrCharset, ErrEdgeHyphen, ErrDoubleHyphen >>[k]

\* C8: the validator accepts (returns '') every name of 3..63 characters over
\* [a-z0-9-] without a leading, trailing or double hyphen, and for a name that
\* breaks exactly one rule it returns the reason of that rule.
C8_AcceptsValidAndNamesTheOneRule ==
    verdict # Unchecked =>
        /\ Broken(candidate) = {} => verdict = ""
        /\ \A k \in DOMAIN RuleOrder : Broken(candidate) = { k } => verdict = Reason(k)

\* a name of 63 characters was accepted
C8_Witness ==
    /\ verdict = ""
    /\ Len(candidate) = 63
    /\ Broken(candidate) = {}

\* C9: when a name breaks several rules, the validator reports the first broken
\* rule in the order required, length, charset, edge hyphen, double hyphen.
C9_FirstBrokenRuleWins ==
    (verdict # Unchecked /\ Broken(candidate) # {}) =>
        \E k \in Broken(candidate) :
            /\ \A j \in Broken(candidate) : k <= j
            /\ verdict = Reason(k)

\* a name that breaks the charset, the edge-hyphen and the double-hyphen rule
\* was validated
C9_Witness ==
    /\ verdict # Unchecked
    /\ Broken(candidate) = { 3, 4, 5 }

(***************************************************************************)
(* Properties of the server.                                               *)
(***************************************************************************)
\* the validator of uploads accepts the file: its type is in the allow-list and
\* it is at most 100 MiB long
Acceptable(part) ==
    /\ part # NoFile
    /\ part.mimetype \in allowedTypes
    /\ part.size <= 104857600

\* the validator of uploads rejects the file
Rejectable(part) ==
    /\ part # NoFile
    /\ (part.mimetype \notin allowedTypes \/ part.size > 104857600)

\* the request met a storage backend that could not be reached
BackendFault(r) == r.logged \in { ErrTransport, ErrNoCredential }

C1_AdmittedUploadSucceeds ==
    (/\ resp.op = "upload"
     /\ Acceptable(resp.req.part)
     /\ Broken(resp.req.container) = {}
     /\ ~BackendFault(resp)
     /\ resp.status # 429) =>
        (resp.status = 200 /\ resp.size = resp.req.part.size)

\* the limiter refuses no request of a client that has made fewer than 10
\* upload requests in the current window: the step that counts such a request
\* sends no 429
C1_LimiterAdmits ==
    \A ip \in IPs :
        (hits[ip] < 10 /\ hits'[ip] = hits[ip] + 1) =>
            (resp' = resp \/ resp'.status # 429)

C2_RejectedMakesNoCall ==
    /\ (resp.op = "upload" /\ Rejectable(resp.req.part)) =>
           (resp.calls = <<>> /\ resp.status >= 400)
    /\ \A b \in blobs : b.contentType \in allowedTypes /\ b.size <= 104857600
    /\ \A r \in inflight : Acceptable(r.req.part)

\* the step that handles a rejected upload leaves the storage account alone
C2_RejectedChangesNothing ==
    \/ UNCHANGED <<containers, blobs, inflight, nextUuid>>
    \/ \A part \in Parts, ip \in IPs, container \in UrlNames, up \in BOOLEAN :
           ~(Rejectable(part) /\ PostUpload(ip, container, part, up))

\* C2: an upload that the validator rejects (type outside the allow-list, or
\* longer than the ceiling) makes no storage call, creates no container and
\* writes no blob.
C2_RejectedUploadHasNoEffect == [](C2_RejectedMakesNoCall) /\ [][C2_RejectedChangesNothing]_vars

\* a file of a type that is not allowed, sent to a container that does not
\* exist, was answered
C2_Witness ==
    /\ resp.op = "upload"
    /\ resp.req.part.mimetype = "application/zip"
    /\ resp.req.container = NameDocs
    /\ NameDocs \notin containers
    /\ credential

\* C3: POST /api/upload/:name answers 400 whenever no file is supplied or the
\* validator rejects the file, for an unsupported type and for a file too large
\* (the requests that the limiter refuses set aside).
C3_NoFileOrRejectedIs400 ==
    (/\ resp.op = "upload"
     /\ (resp.req.part = NoFile \/ Rejectable(resp.req.part))
     /\ resp.status # 429) =>
        resp.status = 400

\* C4: POST /api/containers with a name that breaks a rule of container names
\* is answered 400 and makes no storage call (the requests that meet an
\* unreachable backend set aside).
C4_InvalidNameIs400 ==
    (resp.op = "create" /\ Broken(resp.req.container) # {} /\ ~BackendFault(resp)) =>
        (resp.status = 400 /\ resp.calls = <<>>)

\* C5: creating a container whose name is in use is answered 409 (when the
\* storage service answers), and the containers and their blobs are unchanged.
C5_DuplicateIsConflict ==
    [][resp'.op = "create" =>
          \A name \in containers \cap BodyNames :
              PostContainers(name, TRUE) =>
                  /\ resp'.status = 409
                  /\ resp'.error = "Container already exists"
                  /\ UNCHANGED <<containers, blobs, inflight>>]_vars

\* a create of a container that exists and holds a blob was answered 409
C5_Witness ==
    /\ resp.op = "create"
    /\ resp.status = 409
    /\ \E b \in blobs : b.container = resp.req.container

\* C6: deleting a blob name that does not exist in the container is answered
\* 404, never a success.
C6_MissingBlobIs404 ==
    (resp.op = "delete" /\ resp.logged = ErrBlobMissing) => resp.status = 404

\* the blobs of a container
BlobsOf(container) == { b \in blobs : b.container = container }

\* an upload into a container without blobs leaves exactly the uploaded file in it
C7_UploadPart ==
    (resp'.op = "upload" /\ resp'.status = 200) =>
        \A r \in inflight, up \in BOOLEAN :
            (BlobsOf(r.req.container) = {} /\ UploadData(r, up)) =>
                \E b \in blobs' :
                    /\ BlobsOf(r.req.container)' = { b }
                    /\ b.name = resp'.filename
                    /\ b.originalName = r.req.part.originalname
                    /\ b.size = r.req.part.size

\* a listing of a container that holds one blob is one entry with the original
\* name and the length of that blob; of a container without blobs, it is empty
C7_ListPart ==
    (resp'.op = "files" /\ resp'.status = 200) =>
        \A container \in UrlNames, up \in BOOLEAN, up2 \in BOOLEAN :
            GetFiles(container, up, up2) =>
                /\ BlobsOf(container) = {} => resp'.files = {}
                /\ \A b \in blobs :
                       BlobsOf(container) = { b } =>
                           /\ Cardinality(resp'.files) = 1
                           /\ \A e \in resp'.files :
                                  /\ e.name = b.name
                                  /\ e.originalName = b.originalName
                                  /\ e.size = b.size

\* a delete by the generated name of the only blob of a container leaves the
\* container without blobs
C7_DeletePart ==
    (resp'.op = "delete" /\ resp'.status = 200) =>
        \A container \in UrlNames, filename \in BlobNameInputs, up \in BOOLEAN, up2 \in BOOLEAN :
            (/\ \E b \in blobs : BlobsOf(container) = { b } /\ b.name = filename
             /\ DeleteFile(container, filename, up, up2)) =>
                BlobsOf(container)' = {}

\* C7: round trip: after the upload of one accepted file to an empty container
\* the listing of the container is exactly one entry, with the original name
\* and the byte length of the upload; after the delete of that entry by its
\* generated name the listing is empty.
C7_RoundTrip == [][C7_UploadPart /\ C7_ListPart /\ C7_DeletePart]_vars

\* the listing of a container was the one entry of report.pdf, 600 bytes long,
\* under its generated name
C7_Witness ==
    /\ resp.op = "files"
    /\ resp.status = 200
    /\ \E e \in resp.files :
           /\ resp.files = { e }
           /\ e.originalName = "report.pdf"
           /\ e.size = 600
           /\ e.name # e.originalName
           /\ \E b \in blobs : BlobsOf(resp.req.container) = { b } /\ b.name = e.name

\* C10: a blob name is unique in its container: no two uploads, in flight or
\* stored, have the same name in one container, and an upload that succeeds
\* adds a blob and leaves every other blob as it was.
C10_UploadsNeverCollide ==
    /\ [](\A r1 \in inflight :
            /\ \A r2 \in inflight : (r1 # r2) => (r1.name # r2.name)
            /\ \A b \in blobs : b.name # r1.name)
    /\ [][(resp'.op = "upload" /\ resp'.status = 200) =>
            \A r \in inflight, up \in BOOLEAN :
                UploadData(r, up) =>
                    /\ blobs \subseteq blobs'
                    /\ Cardinality(blobs') = Cardinality(blobs) + 1]_vars

\* two uploads of the same original file name are two blobs of one container
C10_Witness ==
    \E b1 \in blobs, b2 \in blobs :
        /\ b1.container = b2.container
        /\ b1.originalName = b2.originalName
        /\ b1.name # b2.name


\* every upload past getContainerClient, and every blob, is in a container that exists
C11_ContainerOfUploadExists ==
    /\ \A r \in inflight : r.req.container \in containers
    /\ \A b \in blobs : b.container \in containers

\* the step that answers an upload with success leaves the container in the
\* account and the uploaded blob in the container
C11_SuccessStoresBlob ==
    (resp' # resp /\ resp'.op = "upload" /\ resp'.status = 200) =>
        /\ resp'.container = resp'.req.container
        /\ resp'.container \in containers'
        /\ \E b \in blobs' :
              /\ b.container = resp'.container
              /\ b.name = resp'.filename
              /\ b.size = resp'.req.part.size

\* C11: an upload to a container that does not exist creates it on demand: from
\* getContainerClient on the container of the upload exists, and after a
\* successful upload it exists and contains the uploaded blob.
C11_UploadCreatesContainer ==
    [](C11_ContainerOfUploadExists) /\ [][C11_SuccessStoresBlob]_vars

\* an upload was answered with success, its container exists and holds its blob
C11_Witness ==
    /\ resp.op = "upload"
    /\ resp.status = 200
    /\ resp.calls = << "createIfNotExists", "uploadData" >>
    /\ resp.container \in containers
    /\ \E b \in blobs : b.container = resp.container /\ b.name = resp.filename

\* an upload request of a client that has had fewer than 10 counted in its
\* window is counted; one of a client that has had 10 is rejected with the
\* message of the limiter, calls no storage operation and changes nothing
\* stored; neither touches the count of another client
C12_CountedOrRejected ==
    \A ip \in DOMAIN hits :
        \A container \in UrlNames, part \in Parts, up \in BOOLEAN :
            PostUpload(ip, container, part, up) =>
                /\ \A other \in DOMAIN hits \ { ip } : hits'[other] = hits[other]
                /\ IF hits[ip] < 10
                   THEN hits'[ip] = hits[ip] + 1
                   ELSE /\ hits'[ip] > 10
                        /\ resp'.op = "upload"
                        /\ resp'.req.ip = ip
                        /\ resp'.status = 429
                        /\ resp'.message =
                              "Too many uploads from this IP, please try again later."
                        /\ resp'.calls = << >>
                        /\ UNCHANGED <<containers, blobs, inflight, nextUuid>>

\* the count of a client goes down only when its window ends
C12_CountFallsOnlyAtReset ==
    \A ip \in DOMAIN hits : hits'[ip] < hits[ip] => hits'[ip] = 0 /\ UNCHANGED resp

Statuses == { 200, 400, 409, 429, 500 }

\* an upload that is past getContainerClient has no answer yet
Pending == 0

\* the blob names of the storage account, and one that is not there
StoredNames == { b.name : b \in blobs } \cup { "missing.pdf" }

\* the server answers the upload request with status st, or takes it to uploadData
UploadAnswered(ip, container, part, up, st) ==
    /\ PostUpload(ip, container, part, up)
    /\ IF inflight' # inflight THEN st = Pending ELSE resp'.status = st

\* every request other than an upload has after the step the status it had before
SameAnswers ==
    /\ \A up \in BOOLEAN, st \in Statuses :
          (ENABLED (GetContainers(up) /\ resp'.status = st))
              => (ENABLED (GetContainers(up) /\ resp'.status = st))'
    /\ \A up \in BOOLEAN, st \in Statuses :
          (ENABLED (PostContainers(NameDocs, up) /\ resp'.status = st))
              => (ENABLED (PostContainers(NameDocs, up) /\ resp'.status = st))'
    /\ \A up \in BOOLEAN, up2 \in BOOLEAN, st \in Statuses :
          (ENABLED (GetFiles(NameDocs, up, up2) /\ resp'.status = st))
              => (ENABLED (GetFiles(NameDocs, up, up2) /\ resp'.status = st))'
    /\ \A filename \in StoredNames, up \in BOOLEAN, up2 \in BOOLEAN, st \in Statuses :
          (ENABLED (DeleteFile(NameDocs, filename, up, up2) /\ resp'.status = st))
              => (ENABLED (DeleteFile(NameDocs, filename, up, up2) /\ resp'.status = st))'
    /\ \A st \in Statuses :
          (ENABLED (GetHealth /\ resp'.status = st))
              => (ENABLED (GetHealth /\ resp'.status = st))'

\* every upload request has after the step the status it had before
SameUploadAnswers ==
    \A ip \in IPs, part \in LimiterParts, up \in BOOLEAN, st \in Statuses \cup { Pending } :
        (ENABLED UploadAnswered(ip, NameDocs, part, up, st))
            => (ENABLED UploadAnswered(ip, NameDocs, part, up, st))'

\* the step leaves the storage account as it was (and an identifier to draw)
StorageUnchanged ==
    /\ UNCHANGED <<credential, containers, blobs>>
    /\ nextUuid' < MaxUploads

\* C13 as stated: the answer to a request is determined by the request and the
\* storage state only, never by the requests handled earlier: a step that
\* leaves the storage state as it was changes the answer to no request.
C13_AnswerFromStorageOnly ==
    [][StorageUnchanged => (SameAnswers /\ SameUploadAnswers)]_vars

\* C13: the answer to every request other than an upload is determined by the
\* request and the storage state only; the answer to an upload depends also on
\* whether the limiter has counted 10 upload requests of the client in its
\* window, and on nothing else the server handled earlier.
C13_AnswerFromStorageAndLimiter ==
    [][StorageUnchanged =>
          /\ SameAnswers
          /\ (\A ip \in IPs : (hits[ip] >= 10) = (hits'[ip] >= 10)) => SameUploadAnswers]_vars

\* the files of a container were listed for a client that is over its limit
C13_Witness ==
    /\ resp.op = "files"
    /\ resp.status = 200
    /\ resp.files # {}
    /\ \E ip \in IPs : hits[ip] > 10

\* a request that hit an error (something was thrown and logged, or the
\* request was refused) is answered with an error status and an error text
C14_ErrorIsAnswered ==
    (resp.logged # NoError \/ resp.error # "") => (resp.status >= 400 /\ resp.error # "")

\* no error is swallowed: the step that answers with success has done what the
\* answer says
C14_SuccessHasEffect ==
    (resp' # resp /\ resp'.status = 200) =>
        /\ resp'.logged = NoError
        /\ resp'.op = "containers" => resp'.names = containers'
        /\ resp'.op = "create" => resp'.container \in containers'
        /\ resp'.op = "upload" =>
              \E b \in blobs' : b.container = resp'.container /\ b.name = resp'.filename
        /\ resp'.op = "files" =>
              { e.name : e \in resp'.files } =
                  { b.name : b \in { x \in blobs' : x.container = resp'.req.container } }
        /\ resp'.op = "delete" =>
              ~\E b \in blobs' :
                  b.container = resp'.req.container /\ b.name = resp'.req.filename

\* the server takes every request (an upload that gets past multer while an
\* identifier is left to draw)
ServesEveryRequest ==
    /\ ENABLED GetHealth
    /\ \A up \in BOOLEAN : ENABLED GetContainers(up)
    /\ \A name \in BodyNames, up \in BOOLEAN : ENABLED PostContainers(name, up)
    /\ \A ip \in IPs, container \in UrlNames, part \in Parts, up \in BOOLEAN :
          (upload(part) # NoError \/ part = NoFile \/ nextUuid < MaxUploads)
              => ENABLED PostUpload(ip, container, part, up)
    /\ \A r \in inflight, up \in BOOLEAN : ENABLED UploadData(r, up)
    /\ \A container \in UrlNames, up \in BOOLEAN, up2 \in BOOLEAN :
          ENABLED GetFiles(container, up, up2)
    /\ \A container \in UrlNames, filename \in BlobNameInputs, up \in BOOLEAN, up2 \in BOOLEAN :
          ENABLED DeleteFile(container, filename, up, up2)

\* after a failed request the server serves every request
C14_StillServes == resp.status >= 400 => ServesEveryRequest

\* C14: no error is fatal or silently swallowed: every request that hits an
\* error receives an error response (status >= 400), a success response is sent
\* only when the operation was done, and after any failed request the server
\* still serves every subsequent request.
C14_NoErrorFatalOrSwallowed ==
    [](C14_ErrorIsAnswered /\ C14_StillServes) /\ [][C14_SuccessHasEffect]_vars

\* after a first upload was stored, the second one failed at uploadData and was
\* answered 500
C14_Witness ==
    /\ resp.op = "upload"
    /\ resp.status = 500
    /\ resp.logged = ErrTransport
    /\ resp.calls = << "createIfNotExists", "uploadData" >>
    /\ blobs # {}
    /\ ServesEveryRequest

\* C15: the health check never fails: in every server state, the connection
\* credential missing included, GET /api/health is served, and its answer has
\* a success status and the status 'OK', without a storage call.
C15_HealthNeverFails ==
    /\ ENABLED GetHealth
    /\ resp.op = "health" =>
          /\ resp.status = 200
          /\ resp.message = "OK"
          /\ resp.error = ""
          /\ resp.calls = << >>
          /\ resp.logged = NoError

\* the health check was answered by a server without the connection credential
C15_Witness ==
    /\ resp.op = "health"
    /\ resp.status = 200
    /\ ~credential

\* C16: the API exposes no deletion of containers: under any sequence of API
\* operations the set of existing containers never loses a member.
C16_ContainersNeverShrink == [][containers \subseteq containers']_vars

\* two containers exist, one of them made by an upload that has stored its blob
C16_Witness ==
    /\ containers = { NameDocs, NameLogs }
    /\ \E b \in blobs : b.container = NameLogs
    /\ resp.op = "delete"
    /\ resp.status = 200

\* C17: a blob is immutable once stored: a step that leaves a blob name in its
\* container leaves the length of its bytes, its content type and its
\* originalName metadata as they were.
C17_BlobImmutable ==
    [][\A b \in blobs :
          (\E x \in blobs' : x.container = b.container /\ x.name = b.name) => b \in blobs']_vars

\* a second file of the same original name and another length was uploaded to
\* the same container, and the first blob is still there
C17_Witness ==
    /\ resp.op = "upload"
    /\ resp.status = 200
    /\ \E b \in blobs :
          /\ b.container = resp.container
          /\ b.name # resp.filename
          /\ b.originalName = resp.originalName
          /\ b.size # resp.size

\* what the storage service or the network makes a storage call throw
UpstreamErrors ==
    { ErrTransport, ErrInvalidName, ErrContainerExists, ErrContainerMissing, ErrBlobMissing }

\* the fixed message of the catch block of each handler
GenericMessage(op) ==
    CASE op = "containers" -> "Failed to fetch containers"
      [] op = "create" -> "Failed to create container"
      [] op = "upload" -> "Failed to upload file"
      [] op = "files" -> "Failed to fetch files"
      [] op = "delete" -> "Failed to delete file"
      [] OTHER -> ""

\* C18: a storage-service or network failure in any handler (list containers,
\* create container other than 409, upload, list files, delete) is answered
\* 500 with the fixed message of the handler; what was thrown is in the server
\* log only, the body carries nothing else.
C18_UpstreamFailureIsGeneric500 ==
    (resp.logged \in UpstreamErrors
        /\ ~(resp.op = "create" /\ resp.logged = ErrContainerExists)) =>
        /\ resp.status = 500
        /\ resp.error = GenericMessage(resp.op)
        /\ resp.error # ""
        /\ resp.error # resp.logged
        /\ resp.message = ""
        /\ resp.filename = ""
        /\ resp.files = {}
        /\ resp.names = {}

\* the delete call of a DELETE request found the storage service unreachable
C18_Witness ==
    /\ resp.op = "delete"
    /\ resp.status = 500
    /\ resp.logged = ErrTransport
    /\ resp.calls = << "createIfNotExists", "delete" >>
    /\ resp.error = "Failed to delete file"

\* C19: each entry of the list-blobs result carries as originalName the
\* originalName metadata stored with the blob, and the generated blob name when
\* that metadata is absent (or empty); there is one entry for each blob of the
\* container.
C19_OriginalNameOrBlobName ==
    [][(resp' # resp /\ resp'.op = "files" /\ resp'.status = 200) =>
          /\ \A e \in resp'.files :
                \E b \in blobs :
                    /\ b.container = resp'.req.container
                    /\ b.name = e.name
                    /\ b.originalName # "" => e.originalName = b.originalName
                    /\ b.originalName = "" => e.originalName = b.name
          /\ \A b \in blobs :
                b.container = resp'.req.container => \E e \in resp'.files : e.name = b.name]_vars

\* a listing has one entry named by its metadata and one named by its blob name
C19_Witness ==
    /\ resp.op = "files"
    /\ resp.status = 200
    /\ \E e \in resp.files : e.originalName = e.name
    /\ \E e \in resp.files : e.originalName = "report.pdf" /\ e.name # "report.pdf"

\* C20: listing the files of a container that does not exist has one outcome:
\* with the connection credential set and the storage service answering, every
\* such request is answered with success and an empty sequence.
C20_ListingOfMissingContainerIsEmpty ==
    [][(resp'.op = "files" /\ credential) =>
          \A container \in UrlNames \ containers :
              GetFiles(container, TRUE, TRUE) =>
                  (resp'.status = 200 /\ resp'.files = {})]_vars

\* the step in which an upload or a delete issued from the UI comes back with
\* success leaves the file-list query of the container invalidated
C21_SuccessInvalidates ==
    ((\E m \in mutations : UploadSettles(m, TRUE)) \/ DeleteSettles(TRUE)) =>
        containerName \in stale'

\* C21: after every successful upload and every successful delete issued from
\* the UI the file-list query of the affected container is invalidated, and an
\* invalidated query is eventually refetched.
C21_AutomaticRefresh ==
    /\ [][C21_SuccessInvalidates]_vars
    /\ \A key \in AccountNames : (key \in stale) ~> (key \notin stale)

\* an upload has succeeded and the file-list query of its container is invalidated
C21_Witness ==
    /\ \E i \in DOMAIN uploadQueue : uploadQueue[i].status = "success"
    /\ containerName \in stale
    /\ \A s \in sent : s.container = containerName

\* C22: files dropped together are uploaded one by one: at any moment at most
\* one upload request of a drop batch is in flight.
C22_OneRequestPerBatch ==
    \A m1 \in mutations, m2 \in mutations : m1.batch = m2.batch => m1 = m2

\* every name sent breaks no rule of container names
C23_SentNamesAreValid == \A name \in createRequests : Broken(name) = {}

\* the step that sends a create request sends the name in the text field, and
\* the validator returns no error for it
C23_SendsCurrentValidName ==
    \A name \in createRequests' \ createRequests :
        /\ name = newContainerName
        /\ validateContainerName(newContainerName) = ""

\* C23: the client applies the container-name validator before submitting: a
\* create-container request is sent only when validateContainerName returns no
\* error for the current name, whatever edits and clicks preceded it.
C23_ValidatedBeforeSubmit ==
    [](C23_SentNamesAreValid) /\ [][C23_SendsCurrentValidName]_vars

\* after a valid name was sent, a click on Create with a name of two characters
\* was refused with the error of the length rule
C23_Witness ==
    /\ createRequests # {}
    /\ newContainerName = NameShort
    /\ nameError = ErrLength
    /\ ~isLoading

\* a step that changes the status of an entry takes it from pending to
\* uploading, or from uploading to success or error
C24_StatusStep ==
    \A file \in QueuedFiles \cap QueuedFiles' :
        StatusOf(file)' # StatusOf(file) =>
            \/ StatusOf(file) = "pending" /\ StatusOf(file)' = "uploading"
            \/ StatusOf(file) = "uploading" /\ StatusOf(file)' \in { "success", "error" }

\* an entry enters the queue as pending, and an entry that has left it does not come back
C24_EntersPending ==
    \A file \in QueuedFiles' \ QueuedFiles : StatusOf(file)' = "pending" /\ file > fileCount

\* C24: the status of each upload-queue entry only moves forward along
\* pending -> uploading -> (success | error): it never returns to an earlier
\* status, and success and error are terminal.
C24_StatusMovesForward == [][C24_StatusStep /\ C24_EntersPending]_vars

\* the queue holds an entry that succeeded, one that failed and one that is pending
C24_Witness ==
    /\ \E i \in DOMAIN uploadQueue : uploadQueue[i].status = "success"
    /\ \E i \in DOMAIN uploadQueue : uploadQueue[i].status = "error"
    /\ \E i \in DOMAIN uploadQueue : uploadQueue[i].status = "pending"

\* C25: every file added to the upload queue that is not removed eventually
\* reaches status success or error, given that its timer callback runs and its
\* HTTP request completes or fails.
C25_EveryFileSettles ==
    \A file \in FileIds :
        (file \in QueuedFiles) ~>
            (file \notin QueuedFiles \/ StatusOf(file) \in { "success", "error" })

\* three files were dropped and each has reached success or error, one of each at least
C25_Witness ==
    /\ Len(uploadQueue) = MaxFiles
    /\ timers = {}
    /\ mutations = {}
    /\ \A i \in DOMAIN uploadQueue : uploadQueue[i].status \in { "success", "error" }
    /\ \E i \in DOMAIN uploadQueue : uploadQueue[i].status = "error"
    /\ \E i \in DOMAIN uploadQueue : uploadQueue[i].status = "success"

\* C26: a file removed from the upload queue while its status is still pending
\* is never sent to the server: the timer callback of a file that is no longer
\* in the queue makes no upload request.
C26_RemovedPendingIsNotSent ==
    [][\A s \in sent' \ sent : s.file \in QueuedFiles]_vars

\* a list-files or delete-file request for `container' that the storage service
\* answers at create-if-absent (whatever becomes of the handler's own call)
PerContainerRequest(container) ==
    /\ container = resp'.req.container
    /\ \/ \E up2 \in BOOLEAN : GetFiles(container, TRUE, up2)
       \/ \E up2 \in BOOLEAN : DeleteFile(container, resp'.req.filename, TRUE, up2)

\* C27 (as stated): a list-files or delete-file request that names a container
\* which does not exist creates that container, with the connection credential
\* set and the storage service answering.
C27_MissingContainerIsCreated ==
    [][(resp'.op \in { "files", "delete" } /\ credential) =>
          \A container \in UrlNames \ containers :
              PerContainerRequest(container) => container \in containers']_vars

\* C27 (amended): a list-files or delete-file request that names a container
\* which does not exist creates that container when the storage service accepts
\* the name, and creates nothing and is answered 500 when the service refuses
\* the name; every successful list-containers answer names every container that
\* exists, so a container created this way appears in it.
C27_CreatesAcceptedName ==
    [][(resp'.op \in { "files", "delete" } /\ credential) =>
          \A container \in UrlNames \ containers :
              (PerContainerRequest(container) /\ StorageAcceptsName(container)) =>
                  containers' = containers \cup { container }]_vars

C27_CreatesNothingForRefusedName ==
    [][(resp'.op \in { "files", "delete" } /\ credential) =>
          \A container \in UrlNames \ containers :
              (PerContainerRequest(container) /\ ~StorageAcceptsName(container)) =>
                  (containers' = containers /\ resp'.status = 500)]_vars

C27_ListNamesEveryContainer ==
    [][(resp'.op = "containers" /\ resp'.status = 200) =>
          ((\E up \in BOOLEAN : GetContainers(up)) => containers' \subseteq resp'.names)]_vars

C27_SideEffectCreation ==
    /\ C27_CreatesAcceptedName
    /\ C27_CreatesNothingForRefusedName
    /\ C27_ListNamesEveryContainer
    /\ C16_ContainersNeverShrink

C27_Witness ==
    /\ resp.op = "delete"
    /\ resp.status = 500
    /\ resp.calls = << "createIfNotExists", "delete" >>
    /\ containers = { resp.req.container }
    /\ blobs = {}
    /\ inflight = {}
    /\ nextUuid = 0

====
